---- MODULE Spec2Model ----
(***************************************************************************)
(* MazeGenerator (src/js/maze.js): recursive-backtracking maze carver on   *)
(* a 2D grid, with its read-only query interface.                          *)
(*                                                                         *)
(* The grid is a JavaScript array of arrays.  A row is modelled as a       *)
(* function from the integer keys it holds to cell values, so that a write *)
(* past the end of a row (which JavaScript allows and which extends the    *)
(* row) and a read of a missing row (which raises TypeError) are both      *)
(* represented.  generate() is modelled statement by statement: pc is the  *)
(* position of the single thread of control inside it, stack is the call   *)
(* stack of carvePassages frames.                                          *)
(***************************************************************************)
EXTENDS Integers, Sequences, FiniteSets, Bags

\* ----- bounds of the model ------------------------------------------------
\* constructor arguments are drawn from -MaxNeg..MaxW and -MaxNeg..MaxH
MaxNeg == 2
MaxW == 4
MaxH == 4
\* queries are asked for coordinates up to QPad cells outside the grid
QPad == 1

\* ----- cell kinds (the numbers the code stores) ---------------------------
Wall == 1
Passage == 0
Exit == 2

VARIABLES
  inW, inH,     \* the constructor's parameters width and height; they are
                \* out of scope once the constructor has returned
  width, height,\* this.width, this.height
  start, end,   \* this.start, this.end
  grid,         \* this.grid: sequence of rows, row z of the code is grid[z+1]
  pc,           \* position of control: "new" before the constructor body,
                \* "idle" between calls, otherwise a place in generate()
  zi,           \* loop variable z of generate()'s row loop
  stack,        \* carvePassages frames: [x, z, dirs], dirs = directions the
                \* for..of loop has not yet taken from the shuffled array
  arg,          \* arguments of the carvePassages call about to be entered
  fault,        \* "none", or the error the last generate() call raised
  generated,    \* TRUE iff this.grid is the grid a generate() call returned
  ret,          \* what the last query returned (or that it threw)
  calls,        \* generate() calls made on the instance so far: "none",
                \* "first" (one) or "repeated" (more than one)
  invoked       \* bag of the coordinates carvePassages was invoked with in
                \* the current generate() call

vars == <<inW, inH, width, height, start, end, grid, pc, zi, stack, arg,
          fault, generated, ret, calls, invoked>>

\* ----- JavaScript helpers -------------------------------------------------
\* the % operator of JavaScript on integers (sign of the dividend)
JsRem(a, b) == IF a >= 0 THEN a % b ELSE 0 - ((0 - a) % b)

\* grid[z] is an array (not undefined)
RowDefined(g, z) == z >= 0 /\ z < Len(g)

\* grid[z][x] === v  (for a defined row; a missing element is undefined and
\* is strictly equal to no number)
CellIs(g, x, z, v) ==
  /\ RowDefined(g, z)
  /\ x \in DOMAIN g[z + 1]
  /\ g[z + 1][x] = v

\* the row after  row[x] = v
RowSet(row, x, v) == [k \in (DOMAIN row) \cup {x} |-> IF k = x THEN v ELSE row[k]]

\* the grid after  grid[z][x] = v  (grid[z] must be defined)
GridSet(g, x, z, v) == [g EXCEPT ![z + 1] = RowSet(g[z + 1], x, v)]

\* row.length: one more than the largest array index the row holds
RowLength(row) ==
  LET idx == {k \in DOMAIN row : k >= 0}
  IN IF idx = {} THEN 0 ELSE 1 + CHOOSE m \in idx : \A k \in idx : k <= m

\* ----- constructor --------------------------------------------------------
Normalize(n) == IF JsRem(n, 2) = 0 THEN n + 1 ELSE n

Start == [x |-> 1, z |-> 1]

\* (variant: the end is placed one cell further out)
End_OnBorder(w, h) == [x |-> w - 1, z |-> h - 1]

End(w, h) == [x |-> w - 2, z |-> h - 2]

NoRet == [op |-> "none"]

\* a parameter of a call that has returned
OutOfScope == "out of scope"

\* new MazeGenerator(inW, inH) has been called and its body is about to run;
\* the fields are not assigned yet
Init ==
  /\ inW \in (0 - MaxNeg)..MaxW
  /\ inH \in (0 - MaxNeg)..MaxH
  /\ width = 0
  /\ height = 0
  /\ grid = <<>>
  /\ start = Start
  /\ end = Start
  /\ pc = "new"
  /\ zi = 0
  /\ stack = <<>>
  /\ arg = Start
  /\ fault = "none"
  /\ generated = FALSE
  /\ ret = NoRet
  /\ calls = "none"
  /\ invoked = EmptyBag

\* the constructor body
Construct ==
  /\ pc = "new"
  /\ width' = Normalize(inW)
  /\ height' = Normalize(inH)
  /\ grid' = <<>>
  /\ start' = Start
  /\ end' = End(width', height')
  /\ inW' = OutOfScope
  /\ inH' = OutOfScope
  /\ pc' = "idle"
  /\ UNCHANGED <<zi, stack, arg, fault, generated, ret, calls, invoked>>

\* ----- generate(): grid initialisation ------------------------------------
\* the row built by the inner loop: w cells, all walls (none when w <= 0)
NewRow(w) == [x \in 0..(w - 1) |-> Wall]

Generate ==
  /\ pc = "idle"
  /\ calls' = IF calls = "none" THEN "first" ELSE "repeated"
  /\ grid' = <<>>
  /\ zi' = 0
  /\ pc' = "init"
  /\ stack' = <<>>
  /\ fault' = "none"
  /\ generated' = FALSE
  /\ ret' = NoRet
  /\ invoked' = EmptyBag
  /\ UNCHANGED <<inW, inH, width, height, start, end, arg>>

InitRow ==
  /\ pc = "init"
  /\ zi < height
  /\ grid' = Append(grid, NewRow(width))
  /\ zi' = zi + 1
  /\ UNCHANGED <<inW, inH, width, height, start, end, pc, stack, arg, fault,
                 generated, ret, invoked, calls>>

CallCarve ==
  /\ pc = "init"
  /\ ~(zi < height)
  /\ arg' = [x |-> 1, z |-> 1]
  /\ pc' = "call"
  /\ UNCHANGED <<inW, inH, width, height, start, end, grid, zi, stack, fault,
                 generated, ret, invoked, calls>>

\* an uncaught TypeError unwinds every frame and leaves generate()
Throw ==
  /\ pc' = "idle"
  /\ stack' = <<>>
  /\ fault' = "TypeError"

\* ----- carvePassages ------------------------------------------------------
Directions ==
  << [dx |-> 0, dz |-> 0 - 2],
     [dx |-> 2, dz |-> 0],
     [dx |-> 0, dz |-> 2],
     [dx |-> 0 - 2, dz |-> 0] >>

\* [s[i], s[j]] = [s[j], s[i]] with the code's 0-based i, j
Swap(s, i, j) == [s EXCEPT ![i + 1] = s[j + 1], ![j + 1] = s[i + 1]]

\* the Fisher-Yates loop from index i down to 1; draws[i] is the value of
\* Math.floor(Math.random() * (i + 1)) in iteration i
RECURSIVE ShuffleFrom(_, _, _)
ShuffleFrom(s, i, draws) ==
  IF i > 0 THEN ShuffleFrom(Swap(s, i, draws[i]), i - 1, draws) ELSE s

ShuffleArray(array, draws) == ShuffleFrom(array, Len(array) - 1, draws)

\* the outcomes of the random draws of one shuffle of an array of length n
Draws(n) == {d \in [1..(n - 1) -> 0..(n - 1)] : \A i \in 1..(n - 1) : d[i] <= i}

\* the bounds part of the test in the loop
\* (variant: the upper limits are one too small)
InsideRing_Narrow(w, h, nx, nz) == nx > 0 /\ nx < w - 2 /\ nz > 0 /\ nz < h - 2

InsideRing(w, h, nx, nz) == nx > 0 /\ nx < w - 1 /\ nz > 0 /\ nz < h - 1

\* the cell between (x, z) and its neighbour in direction dir
\* (variant: the half step is taken away from the neighbour)
Mid_Backwards(x, z, dir) == [x |-> x - (dir.dx \div 2), z |-> z - (dir.dz \div 2)]

\* (variant: the two axes are exchanged)
Mid_Swapped(x, z, dir) == [x |-> x + (dir.dz \div 2), z |-> z + (dir.dx \div 2)]

\* (variant: a whole step instead of half of one)
Mid_WholeStep(x, z, dir) == [x |-> x + dir.dx, z |-> z + dir.dz]

Mid(x, z, dir) == [x |-> x + (dir.dx \div 2), z |-> z + (dir.dz \div 2)]

\* the whole test for direction dir from (x, z): the neighbour is inside the
\* ring and still a wall
\* (variant: the cell tested for Wall is the midpoint, not the neighbour)
Admissible_MidCheck(g, w, h, x, z, dir) ==
  /\ InsideRing(w, h, x + dir.dx, z + dir.dz)
  /\ CellIs(g, Mid(x, z, dir).x, Mid(x, z, dir).z, Wall)

\* (variant: the neighbour is not tested for Wall)
Admissible_NoWallCheck(g, w, h, x, z, dir) ==
  InsideRing(w, h, x + dir.dx, z + dir.dz)

Admissible(g, w, h, x, z, dir) ==
  /\ InsideRing(w, h, x + dir.dx, z + dir.dz)
  /\ CellIs(g, x + dir.dx, z + dir.dz, Wall)

\* entry of carvePassages(arg.x, arg.z): mark the cell, shuffle the directions
CarvePassages ==
  /\ pc = "call"
  /\ invoked' = invoked (+) SetToBag({<<arg.x, arg.z>>})
  /\ IF RowDefined(grid, arg.z)
     THEN /\ grid' = GridSet(grid, arg.x, arg.z, Passage)
          /\ \E draws \in Draws(Len(Directions)) :
               stack' = Append(stack, [x |-> arg.x, z |-> arg.z,
                                       dirs |-> ShuffleArray(Directions, draws)])
          /\ pc' = "loop"
          /\ UNCHANGED fault
     ELSE /\ Throw
          /\ UNCHANGED grid
  /\ UNCHANGED <<inW, inH, width, height, start, end, zi, arg, generated, ret, calls>>

\* one iteration of the for..of loop of the innermost frame
TryDirection ==
  /\ pc = "loop"
  /\ stack # <<>>
  /\ LET top == stack[Len(stack)] IN
     /\ top.dirs # <<>>
     /\ LET dir == Head(top.dirs)
            newX == top.x + dir.dx
            newZ == top.z + dir.dz
            mid  == Mid(top.x, top.z, dir)
            rest == [stack EXCEPT ![Len(stack)].dirs = Tail(top.dirs)]
        IN IF InsideRing(width, height, newX, newZ) /\ ~RowDefined(grid, newZ)
           THEN Throw /\ UNCHANGED <<grid, arg>>
           ELSE IF Admissible(grid, width, height, top.x, top.z, dir)
           THEN IF RowDefined(grid, mid.z)
                THEN /\ grid' = GridSet(grid, mid.x, mid.z, Passage)
                     /\ arg' = [x |-> newX, z |-> newZ]
                     /\ stack' = rest
                     /\ pc' = "call"
                     /\ UNCHANGED fault
                ELSE Throw /\ UNCHANGED <<grid, arg>>
           ELSE /\ stack' = rest
                /\ UNCHANGED <<grid, arg, pc, fault>>
  /\ UNCHANGED <<inW, inH, width, height, start, end, zi, generated, ret, invoked, calls>>

\* the loop is exhausted: carvePassages returns to its caller
CarveReturn ==
  /\ pc = "loop"
  /\ stack # <<>>
  /\ stack[Len(stack)].dirs = <<>>
  /\ stack' = SubSeq(stack, 1, Len(stack) - 1)
  /\ pc' = IF Len(stack) = 1 THEN "open_start" ELSE "loop"
  /\ UNCHANGED <<inW, inH, width, height, start, end, grid, zi, arg, fault,
                 generated, ret, invoked, calls>>

\* ----- generate(): endpoints ----------------------------------------------
OpenStart ==
  /\ pc = "open_start"
  /\ IF RowDefined(grid, start.z)
     THEN /\ grid' = GridSet(grid, start.x, start.z, Passage)
          /\ pc' = "open_end"
          /\ UNCHANGED <<stack, fault>>
     ELSE Throw /\ UNCHANGED grid
  /\ UNCHANGED <<inW, inH, width, height, start, end, zi, arg, generated, ret,
                 invoked, calls>>

OpenEnd ==
  /\ pc = "open_end"
  /\ IF RowDefined(grid, end.z)
     THEN /\ grid' = GridSet(grid, end.x, end.z, Passage)
          /\ pc' = "mark_exit"
          /\ UNCHANGED <<stack, fault>>
     ELSE Throw /\ UNCHANGED grid
  /\ UNCHANGED <<inW, inH, width, height, start, end, zi, arg, generated, ret,
                 invoked, calls>>

\* mark the exit and return the grid
MarkExit ==
  /\ pc = "mark_exit"
  /\ IF RowDefined(grid, end.z)
     THEN /\ grid' = GridSet(grid, end.x, end.z, Exit)
          /\ pc' = "idle"
          /\ generated' = TRUE
          /\ UNCHANGED <<stack, fault>>
     ELSE Throw /\ UNCHANGED <<grid, generated>>
  /\ UNCHANGED <<inW, inH, width, height, start, end, zi, arg, ret, invoked, calls>>

\* ----- queries ------------------------------------------------------------
\* (variant: the upper limits are compared with > instead of >=)
OutOfBounds_Inclusive(w, h, x, z) == x < 0 \/ x > w \/ z < 0 \/ z > h

OutOfBounds(w, h, x, z) == x < 0 \/ x >= w \/ z < 0 \/ z >= h

\* isWall(x, z) on an instance with the given fields
IsWall(g, w, h, x, z) ==
  IF OutOfBounds(w, h, x, z) THEN [threw |-> FALSE, val |-> TRUE]
  ELSE IF ~RowDefined(g, z) THEN [threw |-> TRUE, val |-> FALSE]
  ELSE [threw |-> FALSE, val |-> CellIs(g, x, z, Wall)]

\* isExit(x, z)
IsExit(g, w, h, x, z) ==
  IF OutOfBounds(w, h, x, z) THEN [threw |-> FALSE, val |-> FALSE]
  ELSE IF ~RowDefined(g, z) THEN [threw |-> TRUE, val |-> FALSE]
  ELSE [threw |-> FALSE, val |-> CellIs(g, x, z, Exit)]

\* the coordinates queries are asked for: the grid and QPad cells around it
QueryXs == (0 - QPad)..((IF width > 0 THEN width ELSE 0) + QPad)
QueryZs == (0 - QPad)..((IF height > 0 THEN height ELSE 0) + QPad)

QueryIsWall ==
  /\ pc = "idle"
  /\ \E x \in QueryXs, z \in QueryZs :
       ret' = [op |-> "isWall", x |-> x, z |-> z,
               res |-> IsWall(grid, width, height, x, z)]
  /\ UNCHANGED <<inW, inH, width, height, start, end, grid, pc, zi, stack, arg,
                 fault, generated, invoked, calls>>

QueryIsExit ==
  /\ pc = "idle"
  /\ \E x \in QueryXs, z \in QueryZs :
       ret' = [op |-> "isExit", x |-> x, z |-> z,
               res |-> IsExit(grid, width, height, x, z)]
  /\ UNCHANGED <<inW, inH, width, height, start, end, grid, pc, zi, stack, arg,
                 fault, generated, invoked, calls>>

\* getStart(), getEnd(), getWidth(), getHeight()
Getters ==
  /\ pc = "idle"
  /\ ret' = [op |-> "get", start |-> start, end |-> end,
             width |-> width, height |-> height]
  /\ UNCHANGED <<inW, inH, width, height, start, end, grid, pc, zi, stack, arg,
                 fault, generated, invoked, calls>>

Next ==
  \/ Construct
  \/ Generate
  \/ InitRow
  \/ CallCarve
  \/ CarvePassages
  \/ TryDirection
  \/ CarveReturn
  \/ OpenStart
  \/ OpenEnd
  \/ MarkExit
  \/ QueryIsWall
  \/ QueryIsExit
  \/ Getters

Spec == Init /\ [][Next]_vars

\* ----- vocabulary of the properties ---------------------------------------
\* both normalized dimensions are at least 3
Proper == width >= 3 /\ height >= 3

\* generate() is running, or this.grid is a grid it returned
InOrAfterGenerate == pc \notin {"new", "idle"} \/ generated

\* the coordinates the grid holds a value for
Held == UNION {{<<x, z>> : x \in DOMAIN grid[z + 1]} : z \in 0..(Len(grid) - 1)}

Kind(c) == grid[c[2] + 1][c[1]]

NonWallCells == {c \in Held : Kind(c) # Wall}

OnBorder(c) == c[1] = 0 \/ c[1] = width - 1 \/ c[2] = 0 \/ c[2] = height - 1

Abs(n) == IF n < 0 THEN 0 - n ELSE n

\* cardinally adjacent: one step in one of the four directions
Adjacent(a, b) == Abs(a[1] - b[1]) + Abs(a[2] - b[2]) = 1

\* the cells of S reachable from the cells of R by steps between adjacent cells
RECURSIVE ReachFrom(_, _)
ReachFrom(R, S) ==
  LET more == {c \in S \ R : \E r \in R : Adjacent(c, r)}
  IN IF more = {} THEN R ELSE ReachFrom(R \cup more, S)

\* the interior cells with both coordinates odd
OddCells == {c \in (1..(width - 2)) \X (1..(height - 2)) :
               c[1] % 2 = 1 /\ c[2] % 2 = 1}

\* ----- C1 -----------------------------------------------------------------
\* C1: with both normalized dimensions >= 3, every border cell that the grid
\* holds is Wall in every state of generate() and in the grid it returns (the
\* rows are complete from the end of the row loop on), on every call.
C1_BorderIsWall ==
  (Proper /\ InOrAfterGenerate) =>
     /\ \A c \in Held : OnBorder(c) => Kind(c) = Wall
     /\ \A z \in 0..(Len(grid) - 1) : DOMAIN grid[z + 1] = 0..(width - 1)
     /\ (pc # "init") => Len(grid) = height

\* a second generate() call has returned a 5x5 grid with carved cells
C1_Witness ==
  /\ generated /\ calls = "repeated" /\ width = 5 /\ height = 5
  /\ Cardinality(NonWallCells) > 1
  /\ \A c \in Held : OnBorder(c) => Kind(c) = Wall

\* ----- C2 -----------------------------------------------------------------
\* C2: after generate() (dimensions >= 3) the non-Wall cells are one
\* 4-connected component containing (1,1), and the search from (1,1) reaches
\* the Exit cell at (width-2, height-2).
C2_Connected ==
  (Proper /\ generated) =>
     /\ <<1, 1>> \in NonWallCells
     /\ ReachFrom({<<1, 1>>}, NonWallCells) = NonWallCells
     /\ <<width - 2, height - 2>> \in ReachFrom({<<1, 1>>}, NonWallCells)
     /\ Kind(<<width - 2, height - 2>>) = Exit

\* a 5x5 maze whose exit is reached from the start through six other cells
C2_Witness ==
  /\ generated /\ width = 5 /\ height = 5
  /\ Cardinality(ReachFrom({<<1, 1>>}, NonWallCells)) = 7
  /\ <<3, 3>> \in ReachFrom({<<1, 1>>}, NonWallCells)

\* ----- C3 -----------------------------------------------------------------
\* C3: after generate() (dimensions >= 3) the graph of non-Wall cells with an
\* edge between cardinally adjacent ones has exactly (cells - 1) edges and is
\* connected: a tree.
AdjacentPairs == {p \in NonWallCells \X NonWallCells : Adjacent(p[1], p[2])}

C3_Tree ==
  (Proper /\ generated) =>
     /\ Cardinality(AdjacentPairs) = 2 * (Cardinality(NonWallCells) - 1)
     /\ ReachFrom({<<1, 1>>}, NonWallCells) = NonWallCells

\* a 5x5 maze: 7 non-Wall cells and 6 edges, although the four odd cells lie
\* on a ring of the cell lattice
C3_Witness ==
  /\ generated /\ width = 5 /\ height = 5
  /\ Cardinality(NonWallCells) = 7
  /\ Cardinality(AdjacentPairs) = 12

\* ----- C4 -----------------------------------------------------------------
\* C4: after every generate() call (dimensions >= 3) exactly one cell is
\* Exit, it is (width-2, height-2), and (1,1) is not Wall.
C4_SingleExit ==
  (Proper /\ generated) =>
     /\ {c \in Held : Kind(c) = Exit} = {<<width - 2, height - 2>>}
     /\ end = [x |-> width - 2, z |-> height - 2]
     /\ <<1, 1>> \in NonWallCells

\* the second call on a 5x3 instance has returned, the exit is at (3,1)
C4_Witness ==
  /\ generated /\ calls = "repeated" /\ width = 5 /\ height = 3
  /\ <<3, 1>> \in Held /\ Kind(<<3, 1>>) = Exit

\* ----- C5 -----------------------------------------------------------------
\* C5: after generate(), for every (x, z): isWall is true exactly when the
\* coordinate is out of bounds or the cell is Wall, isExit exactly when it is
\* in bounds and the cell is Exit; neither throws.
C5_QueriesClassify ==
  generated =>
    \A x \in QueryXs, z \in QueryZs :
      LET inb == x >= 0 /\ x < width /\ z >= 0 /\ z < height IN
      /\ inb => <<x, z>> \in Held
      /\ IsWall(grid, width, height, x, z) =
           [threw |-> FALSE, val |-> (~inb \/ Kind(<<x, z>>) = Wall)]
      /\ IsExit(grid, width, height, x, z) =
           [threw |-> FALSE, val |-> (inb /\ Kind(<<x, z>>) = Exit)]

\* isWall was asked about the corner outside a generated 5x5 grid and said yes
C5_Witness ==
  /\ generated /\ width = 5 /\ height = 5
  /\ ret.op = "isWall" /\ ret.x = 5 /\ ret.z = 5
  /\ ret.res = [threw |-> FALSE, val |-> TRUE]

\* ----- C6 -----------------------------------------------------------------
\* C6: no query raises an error at any point of the instance's lifetime,
\* before the first generate() included.
C6_NoQueryThrows ==
  /\ ret.op \in {"isWall", "isExit"} => ret.res.threw = FALSE
  /\ ret.op = "get" =>
       /\ ret.start = start /\ ret.end = end
       /\ ret.width = width /\ ret.height = height

\* ----- C7 -----------------------------------------------------------------
\* C7: for every integer width and height, generate() completes without
\* raising a fault.
C7_GenerateNeverThrows == fault = "none"

\* ----- C8 -----------------------------------------------------------------
\* C8: an even argument gives that argument plus 1 as dimension, an odd one
\* is unchanged, and the grid generate() returns has getHeight() rows of
\* getWidth() cells each.
IsEven(n) == \E k \in (0 - Abs(n))..Abs(n) : n = 2 * k

C8_Normalized ==
  pc = "new" =>
    /\ width' = (IF IsEven(inW) THEN inW + 1 ELSE inW)
    /\ height' = (IF IsEven(inH) THEN inH + 1 ELSE inH)

C8_GridShape ==
  generated =>
    /\ Len(grid) = height
    /\ \A z \in 0..(Len(grid) - 1) : RowLength(grid[z + 1]) = width

C8_OddDimensions == [][C8_Normalized]_vars /\ [](C8_GridShape)

\* ----- C9 -----------------------------------------------------------------
\* C9: within one generate() call carvePassages is invoked at most once per
\* coordinate; every recursive invocation targets a cell strictly inside the
\* border ring that is Wall when the direction is tried, and the midpoint
\* carved with it was Wall immediately before.
C9_AtMostOnce == \A c \in BagToSet(invoked) : CopiesIn(c, invoked) <= 1

C9_TargetIsFresh ==
  (pc = "loop" /\ pc' = "call") =>
     LET top == stack[Len(stack)] IN
     /\ InsideRing(width, height, arg'.x, arg'.z)
     /\ CellIs(grid, arg'.x, arg'.z, Wall)
     /\ CellIs(grid', arg'.x, arg'.z, Wall)
     /\ CellIs(grid, (top.x + arg'.x) \div 2, (top.z + arg'.z) \div 2, Wall)
     /\ CellIs(grid', (top.x + arg'.x) \div 2, (top.z + arg'.z) \div 2, Passage)
     /\ ~(<<arg'.x, arg'.z>> \in BagToSet(invoked))

C9_NoRevisit == [](C9_AtMostOnce) /\ [][C9_TargetIsFresh]_vars

\* back in the outermost frame after the whole 5x5 grid was carved, the next
\* direction of the shuffled array points at a cell strictly inside the ring
\* that was Wall when the array was shuffled and is Passage now
C9_Witness ==
  /\ pc = "loop" /\ Len(stack) = 1 /\ width = 5 /\ height = 5
  /\ BagCardinality(invoked) = 4
  /\ stack[1].dirs # <<>>
  /\ LET dir == Head(stack[1].dirs) IN
       /\ InsideRing(width, height, 1 + dir.dx, 1 + dir.dz)
       /\ CellIs(grid, 1 + dir.dx, 1 + dir.dz, Passage)
       /\ CellIs(grid, Mid(1, 1, dir).x, Mid(1, 1, dir).z, Wall)

\* ----- C10 ----------------------------------------------------------------
\* C10: when carvePassages(1,1) has returned (dimensions >= 3) every interior
\* cell with both coordinates odd is Passage, the end cell among them, so the
\* overwrite in generate() never opens a Wall.
C10_FullFill ==
  (Proper /\ pc \in {"open_start", "open_end"}) =>
     /\ \A c \in OddCells : CellIs(grid, c[1], c[2], Passage)
     /\ CellIs(grid, end.x, end.z, Passage)
     /\ BagToSet(invoked) = OddCells

\* carving of a 5x5 grid has just returned, with its four odd cells open
C10_Witness ==
  /\ pc = "open_start" /\ width = 5 /\ height = 5
  /\ Cardinality(OddCells) = 4
  /\ \A c \in OddCells : CellIs(grid, c[1], c[2], Passage)

\* ----- C11 ----------------------------------------------------------------
\* generate() is synchronous: once called it runs on the single thread until
\* it returns or throws, so each of its steps is taken when it is enabled.
\* Calling generate() and asking queries is the caller's choice (no fairness).
GenerateStep ==
  \/ InitRow
  \/ CallCarve
  \/ CarvePassages
  \/ TryDirection
  \/ CarveReturn
  \/ OpenStart
  \/ OpenEnd
  \/ MarkExit

FairSpec == Init /\ [][Next]_vars /\ WF_vars(GenerateStep)

\* the number of interior cells with both coordinates odd
CellCount == ((width - 1) \div 2) * ((height - 1) \div 2)

\* during generate() neither the recursion depth nor the number of
\* carvePassages invocations exceeds CellCount, and once carving has returned
\* the number of invocations is exactly CellCount
C11_Counts ==
  (Proper /\ InOrAfterGenerate) =>
     /\ Len(stack) <= CellCount
     /\ BagCardinality(invoked) <= CellCount
     /\ (pc \in {"open_start", "open_end", "mark_exit", "idle"}) =>
          BagCardinality(invoked) = CellCount

\* C11: with dimensions >= 3, for every shuffle outcome, a generate() call
\* that has started eventually returns, after exactly
\* ((width-1)/2) * ((height-1)/2) invocations of carvePassages, and the
\* recursion depth never exceeds that number.
C11_Terminates ==
  /\ [](C11_Counts)
  /\ (Proper /\ pc = "init") ~>
       (pc = "idle" /\ generated /\ stack = <<>> /\ fault = "none"
          /\ BagCardinality(invoked) = CellCount)

\* the recursion is as deep as it can get in a 5x5 grid: four frames, one for
\* each odd cell
C11_Witness ==
  /\ pc = "loop" /\ width = 5 /\ height = 5
  /\ Len(stack) = CellCount
  /\ BagCardinality(invoked) = 4

\* ----- C12 ----------------------------------------------------------------
IsOdd(n) == n % 2 = 1

\* the held cells with both coordinates even
EvenCells == {c \in Held : ~IsOdd(c[1]) /\ ~IsOdd(c[2])}

\* the non-Wall cells with exactly one odd coordinate: the carved midpoints
CarvedMids == {c \in NonWallCells : IsOdd(c[1]) # IsOdd(c[2])}

\* the two cells next to c on the axis of its even coordinate
Ends(c) ==
  IF IsOdd(c[1]) THEN {<<c[1], c[2] - 1>>, <<c[1], c[2] + 1>>}
                 ELSE {<<c[1] - 1, c[2]>>, <<c[1] + 1, c[2]>>}

\* a non-Wall cell with both coordinates odd
OpenOdd(c) == c \in NonWallCells /\ IsOdd(c[1]) /\ IsOdd(c[2])

\* C12 as stated: in every state during and after generate() (dimensions
\* >= 3) every cell with both coordinates even is Wall and every carved
\* midpoint lies between two non-Wall cells with both coordinates odd.
C12_Parity ==
  (Proper /\ InOrAfterGenerate) =>
     /\ \A c \in EvenCells : Kind(c) = Wall
     /\ \A c \in CarvedMids : \A e \in Ends(c) : OpenOdd(e)

\* C12 as amended: the same, except that while the recursive call is about to
\* be entered (the midpoint is carved, the call has not yet marked its cell)
\* the end of the newest midpoint that is the call's target is still Wall.
C12_ParityAmended ==
  (Proper /\ InOrAfterGenerate) =>
     /\ \A c \in EvenCells : Kind(c) = Wall
     /\ \A c \in CarvedMids : \A e \in Ends(c) :
          \/ OpenOdd(e)
          \/ /\ pc = "call"
             /\ stack # <<>>
             /\ e = <<arg.x, arg.z>>
             /\ 2 * c[1] = stack[Len(stack)].x + arg.x
             /\ 2 * c[2] = stack[Len(stack)].z + arg.z
             /\ CellIs(grid, arg.x, arg.z, Wall)

\* in a 5x5 grid the midpoint towards the third cell is carved and the call
\* for that cell is about to be entered: the cell itself is still Wall
C12_Witness ==
  /\ pc = "call" /\ width = 5 /\ height = 5 /\ Len(stack) = 2
  /\ CellIs(grid, arg.x, arg.z, Wall)
  /\ <<(stack[2].x + arg.x) \div 2, (stack[2].z + arg.z) \div 2>> \in CarvedMids
  /\ Cardinality(CarvedMids) = 2

====
